---- MODULE Spec2Model ----
(***************************************************************************)
(* A model of jp_ndb_medicine/_.py: the NDBMedicine facade, its catalog    *)
(* discovery, its filter, the file naming convention and the wide-to-long  *)
(* transformer.                                                            *)
(*                                                                         *)
(* Text.  A Python str is a sequence of characters; every character of the *)
(* source is one token (a TLA+ string), romanised because the module is    *)
(* ASCII: "nai" is U+5185, "FW(" / "FW)" are the full-width parentheses,   *)
(* "[[" / "]]" are the lenticular brackets of the file names, "ryou1" is   *)
(* the character of 'shinryou' (care) and "ryou2" that of 'suuryou'        *)
(* (quantity).  Substring tests, slices and prefix matches are computed on *)
(* these sequences.                                                        *)
(*                                                                         *)
(* Values.  Where the code lets values of several Python types meet (an    *)
(* int, a str, a list or None) the value is a record [t, v]: PyInt, PyStr, *)
(* PyList, PyNone; the cells of a data frame add PyFloat, PyTuple and      *)
(* PyNaN, the missing cell of a frame read with dtype=str.  An exception a *)
(* step raises is carried as a marker until the call returns it.           *)
(***************************************************************************)
EXTENDS Integers, Sequences, FiniteSets, TLC

VARIABLES
    pc,             \* where the session is: "new", "links", "ready", "raised"
    page_links,     \* NDBMedicine.page_links: dict nth -> link: sequence of [key, val] in insertion order
    fileinfo_list,  \* NDBMedicine.fileinfo_list: sequence of FileInfo
    todo,           \* cycle numbers __init__ has still to visit
    warned,         \* whether __init__ logged its warning
    disk,           \* the save directory: dict file name -> workbook, as [key, val]
    call,           \* the public or internal operation last called, with its inputs
    result          \* what that call returned or raised

vars == <<pc, page_links, fileinfo_list, todo, warned, disk, call, result>>

(***************************************************************************)
(* Python values                                                           *)
(***************************************************************************)
PyNone == [t |-> "None", v |-> 0]
PyInt(i) == [t |-> "int", v |-> i]
PyStr(s) == [t |-> "str", v |-> s]
PyList(l) == [t |-> "list", v |-> l]

\* bool(x) of a value, as `if nth:` takes it
Truthy(x) ==
    CASE x.t = "None" -> FALSE
      [] x.t = "int" -> x.v # 0
      [] OTHER -> x.v # <<>>

\* `k in text` for two str: k is a contiguous part of text ('' is part of every str)
IsSubstr(k, text) ==
    \E i \in 1..(Len(text) - Len(k) + 1) : SubSeq(text, i, i + Len(k) - 1) = k

StartsWith(text, k) == Len(text) >= Len(k) /\ SubSeq(text, 1, Len(k)) = k

Drop(text, n) == SubSeq(text, n + 1, Len(text))

\* `x in seq` for a list
InList(x, l) == \E i \in 1..Len(l) : l[i] = x

\* the elements of l that satisfy P, in order
RECURSIVE SelectIdx(_, _, _)
SelectIdx(l, keep, i) ==
    IF i > Len(l) THEN <<>>
    ELSE (IF keep[i] THEN <<l[i]>> ELSE <<>>) \o SelectIdx(l, keep, i + 1)

RECURSIVE Flatten(_)
Flatten(ll) == IF ll = <<>> THEN <<>> ELSE Head(ll) \o Flatten(Tail(ll))

(***************************************************************************)
(* The texts of the source                                                 *)
(***************************************************************************)
Naifuku == <<"nai", "fuku">>                               \* oral
Gaiyou == <<"gai", "you">>                                 \* topical
Chuusha == <<"chuu", "sha">>                               \* injectable
ShikayouYakuzai == <<"shi", "ka", "you", "yaku", "zai">>   \* dental drug
GairaiInnai == <<"gai", "rai", "FW(", "in", "nai", "FW)">> \* outpatient (in-hospital)
GairaiIngai == <<"gai", "rai", "FW(", "in", "gai", "FW)">> \* outpatient (external)
Nyuuin == <<"nyuu", "in">>                                 \* inpatient
SeiNenreiBetsu == <<"sei", "nen", "rei", "betsu">>         \* by sex and age
TodoufukenBetsu == <<"to", "dou", "fu", "ken", "betsu">>   \* by prefecture
ShinryouTsukiBetsu == <<"shin", "ryou1", "tsuki", "betsu">> \* by month of care
YakkouBunruiBetsuSuuryou == <<"yaku", "kou", "bun", "rui", "betsu", "suu", "ryou2">>
Soukei == <<"sou", "kei">>                                 \* total
Shika == <<"shi", "ka">>                                   \* dental
Ika == <<"i", "ka">>                                       \* medical
Digits == <<"0", "1", "2", "3", "4", "5", "6", "7", "8", "9">>

dosage_values == <<Naifuku, Gaiyou, Chuusha, ShikayouYakuzai>>
medical_class_values == <<GairaiInnai, GairaiIngai, Nyuuin>>
medical_class_default_value == <<>>
method_values == <<SeiNenreiBetsu, TodoufukenBetsu, ShinryouTsukiBetsu>>
domain_mhlw == <<"https://www.mhlw.go.jp">>

\* _search(keywords, text, default): the first keyword, in the order of
\* keywords, that is part of text; default when none is
_search(keywords, text, default) ==
    LET found_keywords ==
            SelectIdx(keywords, [i \in 1..Len(keywords) |-> IsSubstr(keywords[i], text)], 1)
            \o <<default>>
    IN found_keywords[1]

(***************************************************************************)
(* FileInfo and the file naming convention                                 *)
(***************************************************************************)
FileInfo(nth, dosage, medical_class, method, url) ==
    [nth |-> nth, dosage |-> dosage, medical_class |-> medical_class,
     method |-> method, url |-> url]

IsDigit(c) == \E i \in 1..10 : Digits[i] = c
DigitVal(c) == (CHOOSE i \in 1..10 : Digits[i] = c) - 1

\* str(n) for n >= 0
RECURSIVE IntToStr(_)
IntToStr(n) == IF n < 10 THEN <<Digits[n + 1]>> ELSE IntToStr(n \div 10) \o <<Digits[(n % 10) + 1]>>

\* int(s) for a str of digits
RECURSIVE StrToInt(_)
StrToInt(s) ==
    IF Len(s) = 1 THEN DigitVal(s[1])
    ELSE 10 * StrToInt(SubSeq(s, 1, Len(s) - 1)) + DigitVal(s[Len(s)])

AllDigits(s) == Len(s) > 0 /\ \A i \in 1..Len(s) : IsDigit(s[i])

\* f"{n:0>w d}": right-aligned in w columns, filled with '0'
RECURSIVE PadZero(_, _)
PadZero(s, w) == IF Len(s) >= w THEN s ELSE PadZero(<<"0">> \o s, w)

\* FileInfo.__str__ of a descriptor whose nth is an int and whose other
\* fields are str
FileInfoStr(f) ==
    PadZero(IntToStr(f.nth.v), 2) \o <<"[[">> \o f.dosage.v \o <<"]]">>
    \o f.medical_class.v \o <<"_">> \o f.method.v \o YakkouBunruiBetsuSuuryou

Xlsx == <<".", "x", "l", "s", "x">>

\* the name _get_file gives the downloaded file
SaveName(f) == FileInfoStr(f) \o Xlsx

\* Path.stem: the name without its last suffix
RECURSIVE LastDot(_, _)
LastDot(name, i) == IF i = 0 THEN 0 ELSE IF name[i] = "." THEN i ELSE LastDot(name, i - 1)

Stem(name) ==
    LET d == LastDot(name, Len(name))
    IN IF d > 1 THEN SubSeq(name, 1, d - 1) ELSE name

\* the alternative of alts, in their order, that text starts with; NoMatch if none
NoMatch == <<"no match">>

FirstPrefix(alts, text) ==
    LET hit == SelectIdx(alts, [i \in 1..Len(alts) |-> StartsWith(text, alts[i])], 1)
    IN IF hit = <<>> THEN NoMatch ELSE hit[1]

\* The part of the pattern after the optional (\d\d)?: the groups 2..4 when
\* text starts with a match, NoMatch otherwise.  re.match anchors the start
\* only: what follows the match is not looked at, so the optional suffix
\* group never decides anything.
MatchTail(text) ==
    IF ~StartsWith(text, <<"[[">>) THEN NoMatch
    ELSE LET t1 == Drop(text, 1)
             g2 == FirstPrefix(dosage_values, t1)
         IN IF g2 = NoMatch THEN NoMatch
            ELSE LET t2 == Drop(t1, Len(g2))
                 IN IF ~StartsWith(t2, <<"]]">>) THEN NoMatch
                    ELSE LET t3 == Drop(t2, 1)
                             g3 == FirstPrefix(medical_class_values, t3)
                             \* group 3 is optional and greedy; the text after it
                             \* has to start with '_'
                             with3 == g3 # NoMatch /\ StartsWith(Drop(t3, Len(g3)), <<"_">>)
                             t4 == IF with3 THEN Drop(t3, Len(g3)) ELSE t3
                         IN IF ~StartsWith(t4, <<"_">>) THEN NoMatch
                            ELSE LET t5 == Drop(t4, 1)
                                     g4 == FirstPrefix(method_values, t5)
                                 IN IF g4 = NoMatch THEN NoMatch
                                    ELSE IF ~StartsWith(Drop(t5, Len(g4)), YakkouBunruiBetsuSuuryou)
                                         THEN NoMatch
                                    ELSE <<g2, IF with3 THEN PyStr(g3) ELSE PyNone, g4>>

\* _parse_to_fileinfo(filepath): the FileInfo of a file name, PyNone when the
\* name does not match.  The groups are handed on as re gives them: group 1
\* is the str of two digits, or None when the name has no cycle number, and
\* group 3 is None when the name has no care setting.
_parse_to_fileinfo(filepath) ==
    LET stem == Stem(filepath)
        two == Len(stem) >= 2 /\ IsDigit(stem[1]) /\ IsDigit(stem[2])
        withNth == IF two THEN MatchTail(Drop(stem, 2)) ELSE NoMatch
        without == MatchTail(stem)
        g == IF withNth # NoMatch THEN withNth ELSE without
        g1 == IF withNth # NoMatch THEN PyStr(SubSeq(stem, 1, 2)) ELSE PyNone
    IN IF g = NoMatch THEN PyNone
       ELSE FileInfo(g1, PyStr(g[1]), g[2], PyStr(g[3]), PyStr(filepath))

(***************************************************************************)
(* The site: the responses requests.get can bring                          *)
(***************************************************************************)
MaxIndexTags == 2     \* anchors on the index page
MaxTags == 3          \* h3, h4 and a elements on a detail page

NDBOpenData == <<"NDB-open-data">>    \* the fixed words after the cycle number
NoHref == <<"no href">>               \* an anchor without an href attribute
Marker == YakkouBunruiBetsuSuuryou
ShohouYaku == <<"sho", "hou", "yaku">>   \* 'prescription drugs'
TokuteiKenshin == <<"toku", "tei", "ken", "shin">>

Anchor(text, href) == [name |-> "a", text |-> text, href |-> href]
H3(text) == [name |-> "h3", text |-> text, href |-> NoHref]
H4(text) == [name |-> "h4", text |-> text, href |-> NoHref]

IndexTagPool ==
    { Anchor(<<"dai", "1", "kai">> \o NDBOpenData, <<"/", "c1">>),
      Anchor(<<"dai", "1", "0", "kai">> \o NDBOpenData, <<"http", "/", "c10">>),
      Anchor(<<"dai", "2", "kai">> \o NDBOpenData, NoHref),
      Anchor(TokuteiKenshin, <<"/", "k">>) }

DetailTagPool ==
    { H3(ShohouYaku), H3(TokuteiKenshin),
      H4(Naifuku), H4(Shika), H4(Ika),
      Anchor(Naifuku \o <<" ">> \o GairaiInnai \o SeiNenreiBetsu \o Marker, <<"/", "a1">>),
      Anchor(Nyuuin \o TodoufukenBetsu \o Marker, <<"http", "/", "a2">>),
      Anchor(ShinryouTsukiBetsu \o Marker, <<"/", "a3">>),
      Anchor(ShikayouYakuzai \o SeiNenreiBetsu \o Marker, <<"/", "a4">>),
      Anchor(Marker, <<"/", "a5">>),
      Anchor(TokuteiKenshin, <<"/", "a6">>) }

SeqsUpTo(S, n) == UNION { [1..k -> S] : k \in 0..n }

\* a response: its status code and the h3, h4 and a elements of its page, in
\* document order
Responses(pool, n) ==
    { [status |-> 200, tags |-> t] : t \in SeqsUpTo(pool, n) }
    \cup { [status |-> 404, tags |-> <<>>] }

(***************************************************************************)
(* Discovery                                                               *)
(***************************************************************************)
\* string_pattern at position i of text: the digits of the cycle number,
\* NoMatch when the pattern does not match there
RECURSIVE DigitRun(_, _)
DigitRun(text, i) ==
    IF i <= Len(text) /\ IsDigit(text[i]) THEN <<text[i]>> \o DigitRun(text, i + 1) ELSE <<>>

PatternAt(text, i) ==
    IF i > Len(text) \/ text[i] # "dai" THEN NoMatch
    ELSE LET d == DigitRun(text, i + 1)
         IN IF d # <<>> /\ StartsWith(Drop(text, i + Len(d)), <<"kai">> \o NDBOpenData)
            THEN d ELSE NoMatch

PatternSearch(text) == \E i \in 1..Len(text) : PatternAt(text, i) # NoMatch

\* d[k] = v of a dict kept as a sequence of [key, val] in insertion order: a
\* key the dict holds keeps its place and takes the new value
DictSet(d, k, v) ==
    IF \E i \in 1..Len(d) : d[i].key = k
    THEN [i \in 1..Len(d) |-> IF d[i].key = k THEN [key |-> k, val |-> v] ELSE d[i]]
    ELSE Append(d, [key |-> k, val |-> v])

AbsLink(link) == IF StartsWith(link, <<"/">>) THEN domain_mhlw \o link ELSE link

\* The loop of _get_page_links over the anchors string_pattern finds: the
\* dict it has built and whether it raised on the way (an anchor whose text
\* does not start with the pattern, or one without href)
RECURSIVE PageLinksLoop(_, _)
PageLinksLoop(tags, links) ==
    IF tags = <<>> THEN [links |-> links, raised |-> FALSE]
    ELSE LET tag == Head(tags)
         IN IF PatternAt(tag.text, 1) = NoMatch \/ tag.href = NoHref
            THEN [links |-> links, raised |-> TRUE]
            ELSE PageLinksLoop(Tail(tags),
                     DictSet(links, StrToInt(PatternAt(tag.text, 1)), AbsLink(tag.href)))

_get_page_links(r) ==
    IF r.status # 200 THEN [links |-> <<>>, raised |-> TRUE]
    ELSE PageLinksLoop(
             SelectIdx(r.tags, [i \in 1..Len(r.tags) |-> PatternSearch(r.tags[i].text)], 1),
             <<>>)

\* the index of the first h3 whose string the pattern of _get_fileinfos finds, 0 if none
FirstH3(tags) ==
    LET hits == { i \in 1..Len(tags) :
                      /\ tags[i].name = "h3"
                      /\ (IsSubstr(ShohouYaku, tags[i].text) \/ IsSubstr(<<"yaku", "zai">>, tags[i].text)) }
    IN IF hits = {} THEN 0 ELSE CHOOSE i \in hits : \A j \in hits : i <= j

\* the dosage form of an anchor without the rule of line 110: an anchor of
\* the dental section is skipped like one of the medical section
Dosage_no_dental(section, name) ==
    IF InList(section, dosage_values) THEN section
    ELSE IF section = <<>> /\ InList(SubSeq(name, 1, 2), dosage_values) THEN SubSeq(name, 1, 2)
    ELSE NoMatch

\* the dosage form of an anchor, NoMatch when the anchor is skipped
Dosage(section, name) ==
    IF InList(section, dosage_values) THEN section
    ELSE IF section = Shika /\ IsSubstr(ShikayouYakuzai, name) THEN ShikayouYakuzai
    ELSE IF section = <<>> /\ InList(SubSeq(name, 1, 2), dosage_values) THEN SubSeq(name, 1, 2)
    ELSE NoMatch

\* the walk of _get_fileinfos over the elements after the heading
RECURSIVE FileinfosLoop(_, _, _, _)
FileinfosLoop(nth, tags, section, acc) ==
    IF tags = <<>> THEN acc
    ELSE LET tag == Head(tags)
         IN IF tag.name = "h3" THEN acc
            ELSE IF tag.name = "h4" THEN FileinfosLoop(nth, Tail(tags), tag.text, acc)
            ELSE IF IsSubstr(Marker, tag.text) /\ Dosage(section, tag.text) # NoMatch
            THEN FileinfosLoop(nth, Tail(tags), section,
                     Append(acc, FileInfo(PyInt(nth),
                                          PyStr(Dosage(section, tag.text)),
                                          PyStr(_search(medical_class_values, tag.text, medical_class_default_value)),
                                          PyStr(_search(method_values, tag.text, <<>>)),
                                          PyStr(AbsLink(tag.href)))))
            ELSE FileinfosLoop(nth, Tail(tags), section, acc)

\* _get_fileinfos(nth) on the response r of the detail page: the descriptors
\* it appends, or the exception it raises
_get_fileinfos(nth, r) ==
    IF r.status # 200 THEN [raised |-> "Exception", added |-> <<>>]
    ELSE IF FirstH3(r.tags) = 0 THEN [raised |-> "AssertionError", added |-> <<>>]
    ELSE [raised |-> "no", added |-> FileinfosLoop(nth, Drop(r.tags, FirstH3(r.tags)), <<>>, <<>>)]

(***************************************************************************)
(* Data frames.  A frame is [columns, data]: the column keys and the rows, *)
(* each row a sequence of cells, one per column.  A column key is a        *)
(* sequence of str: <<name>> for a plain column, <<level0, level1>> for a  *)
(* column of the two-row header.  A cell is a Python value: PyStr, PyInt,  *)
(* PyFloat or PyNaN.  Column names are compared whole and are one token.   *)
(***************************************************************************)
PyNaN == [t |-> "nan", v |-> 0]
PyFloat(x) == [t |-> "float", v |-> x]

YakkouBunrui == <<"yakkou-bunrui">>                 \* classification
YakkouBunruiMeishou == <<"yakkou-bunrui-meishou">>  \* classification name
IyakuhinCode == <<"iyakuhin-code">>                 \* drug code
Iyakuhinmei == <<"iyakuhin-mei">>                   \* drug name
Tani == <<"tan-i">>                                 \* unit
ShuusaiCode == <<"yakka-kijun-shuusai-iyakuhin-code">>  \* price-list code
Yakka == <<"yakka">>                                \* price
KouhatsuhinKubun == <<"kouhatsuhin-kubun">>         \* generic indicator
ShuukeiTani == <<"shuukei-tan-i">>                  \* the pivot key
ShohouSuuryou == <<"shohou-suuryou">>               \* quantity
Seibetsu == <<"seibetsu">>                          \* sex
Nenrei == <<"nenrei">>                              \* age floor
NenreiKukan == <<"nenrei-kukan">>                   \* age band
TodoufukenCode == <<"todoufuken-code">>             \* region code
TodoufukenMei == <<"todoufuken-mei">>               \* region name
ShinryouTsuki == <<"shinryou-tsuki">>               \* reporting month
ShinryouNengetsu == <<"shinryou-nengetsu">>         \* calendar year/month
SaishouShuukeiTaniMiman == <<"saishou-shuukei-tan-i-miman">>  \* below-threshold flag
JisshiKai == <<"jisshi-kai">>                       \* cycle number
Nendo == <<"nendo">>                                \* fiscal year
Zaikei == <<"zaikei">>                              \* dosage form
ShinryouKubun == <<"shinryou-kubun">>               \* care setting
Unnamed == <<"Unnamed">>                            \* level 1 of a header cell left empty

index_cols ==
    <<YakkouBunrui, YakkouBunruiMeishou, IyakuhinCode, Iyakuhinmei, Tani,
      ShuusaiCode, Yakka, KouhatsuhinKubun>>

Plain(names) == [i \in 1..Len(names) |-> <<names[i]>>]

ColIdx(columns, name) == CHOOSE i \in 1..Len(columns) : columns[i] = <<name>>

\* df[names]: the columns named, in that order
SelectCols(df, names) ==
    [columns |-> Plain(names),
     data |-> [r \in 1..Len(df.data) |->
                  [i \in 1..Len(names) |-> df.data[r][ColIdx(df.columns, names[i])]]]]

\* df[name] = df.apply(f, axis=1), f(df, row) being the cell of a row: the
\* column is replaced where it is, or added at the end
SetCol(df, name, f(_, _)) ==
    IF \E i \in 1..Len(df.columns) : df.columns[i] = <<name>>
    THEN [columns |-> df.columns,
          data |-> [r \in 1..Len(df.data) |->
                       [i \in 1..Len(df.columns) |->
                           IF df.columns[i] = <<name>> THEN f(df, df.data[r]) ELSE df.data[r][i]]]]
    ELSE [columns |-> Append(df.columns, <<name>>),
          data |-> [r \in 1..Len(df.data) |-> Append(df.data[r], f(df, df.data[r]))]]

\* df.insert(loc, key, value), loc counted from 0
InsertCol(df, loc, key, value) ==
    [columns |-> SubSeq(df.columns, 1, loc) \o <<key>> \o Drop(df.columns, loc),
     data |-> [r \in 1..Len(df.data) |->
                  SubSeq(df.data[r], 1, loc) \o <<value>> \o Drop(df.data[r], loc)]]

\* column c of data after ffill(): a missing cell takes the last cell above
\* it that is not missing
RECURSIVE FFillCell(_, _, _)
FFillCell(data, r, c) ==
    IF data[r][c] # PyNaN \/ r = 1 THEN data[r][c] ELSE FFillCell(data, r - 1, c)

\* set_index(index_cols).stack().reset_index(): one row per row of the frame
\* and column after the index columns whose cell is not missing (stack drops
\* the missing ones), in row-major order: the index cells, the column key, the cell
Stack(df) ==
    LET n == Len(index_cols)
        cellsOf(r) ==
            [j \in 1..(Len(df.columns) - n) |->
                IF df.data[r][n + j] = PyNaN THEN <<>>
                ELSE << SubSeq(df.data[r], 1, n) \o <<df.columns[n + j], df.data[r][n + j]>> >>]
    IN Flatten([r \in 1..Len(df.data) |-> Flatten(cellsOf(r))])

\* s.replace(c, ''): s without the character c
RECURSIVE RemoveChar(_, _)
RemoveChar(s, c) ==
    IF s = <<>> THEN <<>>
    ELSE (IF Head(s) = c THEN <<>> ELSE <<Head(s)>>) \o RemoveChar(Tail(s), c)

\* ufunc of the by-sex-and-age branch: "raise" when the age band is neither
\* the total nor starts with digits (re.search gives None)
AgeFloor(s) ==
    IF s = Soukei THEN PyInt(-1)
    ELSE IF DigitRun(s, 1) = <<>> THEN [t |-> "raise", v |-> "AttributeError"]
    ELSE PyInt(StrToInt(DigitRun(s, 1)))

\* ufunc of the by-month branch for a fileinfo whose nth is an int
YearMonth(nth, month) ==
    IF month = Soukei THEN PyStr(Soukei)
    ELSE IF ~AllDigits(SubSeq(month, 1, Len(month) - 1)) THEN [t |-> "raise", v |-> "ValueError"]
    ELSE LET year == nth + 2013
             m == StrToInt(SubSeq(month, 1, Len(month) - 1))
         IN PyStr(PadZero(IntToStr(IF m < 4 THEN year + 1 ELSE year), 4)
                  \o <<"/">> \o PadZero(IntToStr(m), 2))

Raised(exc) == [raised |-> exc, columns |-> <<>>, data |-> <<>>]

\* astype of a cell read as str
ToNumber(cell, type) ==
    IF cell = PyNaN THEN (IF type = "float" THEN PyNaN ELSE [t |-> "raise", v |-> "ValueError"])
    ELSE IF cell.t = "str" /\ AllDigits(cell.v) THEN [t |-> type, v |-> StrToInt(cell.v)]
    ELSE [t |-> "raise", v |-> "ValueError"]


PyTuple(k) == [t |-> "tuple", v |-> k]

\* the first exception among the cells of a frame, "no" if there is none
FirstRaise(df) ==
    LET bad == { <<r, i>> \in (1..Len(df.data)) \X (1..Len(df.columns)) : df.data[r][i].t = "raise" }
    IN IF bad = {} THEN "no"
       ELSE LET m == CHOOSE x \in bad : \A y \in bad : x[1] < y[1] \/ (x[1] = y[1] /\ x[2] <= y[2])
            IN df.data[m[1]][m[2]].v

Cell(df, row, name) == row[ColIdx(df.columns, name)]

\* lines 213-226: the by-sex-and-age branch
TransformAge(df) ==
    SelectCols(
        SetCol(
            SetCol(
                SetCol(
                    SetCol(df, Seibetsu, LAMBDA d, row : PyStr(Cell(d, row, ShuukeiTani).v[1])),
                    NenreiKukan, LAMBDA d, row : PyStr(Cell(d, row, ShuukeiTani).v[2])),
                Seibetsu, LAMBDA d, row : PyStr(RemoveChar(Cell(d, row, Seibetsu).v, "sei"))),
            Nenrei, LAMBDA d, row : AgeFloor(Cell(d, row, NenreiKukan).v)),
        index_cols \o <<Seibetsu, Nenrei, NenreiKukan, ShohouSuuryou>>)

\* lines 229-235: the by-prefecture branch
TransformPref(df) ==
    SelectCols(
        SetCol(
            SetCol(
                SetCol(df, TodoufukenCode, LAMBDA d, row : PyStr(Cell(d, row, ShuukeiTani).v[1])),
                TodoufukenMei, LAMBDA d, row : PyStr(Cell(d, row, ShuukeiTani).v[2])),
            TodoufukenCode,
            LAMBDA d, row : IF Cell(d, row, TodoufukenCode) = PyStr(Soukei)
                            THEN PyStr(<<"0", "0">>) ELSE Cell(d, row, TodoufukenCode)),
        index_cols \o <<TodoufukenCode, TodoufukenMei, ShohouSuuryou>>)

\* lines 238-253: the by-month branch; fileinfo.nth + 2013 raises unless nth is an int
TransformMonth(df, nth) ==
    SelectCols(
        SetCol(
            SetCol(
                SetCol(df, ShinryouTsuki, LAMBDA d, row : PyStr(Cell(d, row, ShuukeiTani).v[1])),
                ShinryouNengetsu, LAMBDA d, row : PyStr(Cell(d, row, ShuukeiTani).v[2])),
            ShinryouNengetsu,
            LAMBDA d, row : IF Cell(d, row, ShinryouTsuki) # PyStr(Soukei) /\ nth.t # "int"
                            THEN [t |-> "raise", v |-> "TypeError"]
                            ELSE YearMonth(nth.v, Cell(d, row, ShinryouTsuki).v)),
        index_cols \o <<ShinryouTsuki, ShinryouNengetsu, ShohouSuuryou>>)

\* the branch of the method of the file; a method that is none of the three
\* leaves the long table as it is
TransformMethod(long, fileinfo) ==
    IF fileinfo.method = PyStr(SeiNenreiBetsu) THEN TransformAge(long)
    ELSE IF fileinfo.method = PyStr(TodoufukenBetsu) THEN TransformPref(long)
    ELSE IF fileinfo.method = PyStr(ShinryouTsukiBetsu) THEN TransformMonth(long, fileinfo.nth)
    ELSE long

\* s.mask(s == '-'): a suppressed cell becomes missing
Masked(c) == IF c = PyStr(<<"-">>) THEN PyNaN ELSE c

\* lines 255-257 without the fillna: the flag is set and the suppressed
\* quantity stays missing
BelowThreshold_no_fill(df) ==
    SetCol(
        SetCol(df, SaishouShuukeiTaniMiman,
               LAMBDA d, row : PyInt(IF Cell(d, row, ShohouSuuryou) = PyStr(<<"-">>) THEN 1 ELSE 0)),
        ShohouSuuryou,
        LAMBDA d, row : Masked(Cell(d, row, ShohouSuuryou)))

\* lines 255-257: the flag and the quantity of the cells below the minimum unit
BelowThreshold(df) ==
    SetCol(
        SetCol(df, SaishouShuukeiTaniMiman,
               LAMBDA d, row : PyInt(IF Cell(d, row, ShohouSuuryou) = PyStr(<<"-">>) THEN 1 ELSE 0)),
        ShohouSuuryou,
        LAMBDA d, row : IF Masked(Cell(d, row, ShohouSuuryou)) = PyNaN
                        THEN PyStr(<<"0">>) ELSE Cell(d, row, ShohouSuuryou))

\* the names of the columns of a frame of plain columns
Names(df) == [i \in 1..Len(df.columns) |-> df.columns[i][1]]

\* the four columns assigned, in the order of lines 259-262
Assigned(df, fileinfo, medical_class) ==
    SetCol(
        SetCol(
            SetCol(
                SetCol(df, JisshiKai, LAMBDA d, row : fileinfo.nth),
                Nendo, LAMBDA d, row : IF fileinfo.nth.t = "int" THEN PyInt(fileinfo.nth.v + 2013)
                                       ELSE [t |-> "raise", v |-> "TypeError"]),
            Zaikei, LAMBDA d, row : fileinfo.dosage),
        ShinryouKubun, LAMBDA d, row : PyStr(medical_class))

\* lines 259-265 without the reordering of line 265: the four columns stay
\* where the assignments put them, at the end
Decorate_appended(df, fileinfo, medical_class) ==
    SelectCols(Assigned(df, fileinfo, medical_class),
               Names(df) \o <<JisshiKai, Nendo, Zaikei, ShinryouKubun>>)

\* lines 259-265: the four columns put in front
Decorate(df, fileinfo, medical_class) ==
    SelectCols(Assigned(df, fileinfo, medical_class),
               <<JisshiKai, Nendo, Zaikei, ShinryouKubun>> \o Names(df))

\* lines 268-274: astype
AsType(df) ==
    SetCol(
        SetCol(
            SetCol(df, KouhatsuhinKubun, LAMBDA d, row : ToNumber(Cell(d, row, KouhatsuhinKubun), "int")),
            Yakka, LAMBDA d, row : ToNumber(Cell(d, row, Yakka), "float")),
        ShohouSuuryou, LAMBDA d, row : ToNumber(Cell(d, row, ShohouSuuryou), "float"))

\* lines 195-196: the unit column, missing before the third cycle, is put in
WithUnit(df) ==
    IF \E i \in 1..Len(df.columns) : df.columns[i][1] = Tani THEN df
    ELSE InsertCol(df, 4, <<Tani, <<>>>>, PyNaN)

\* line 199: the identification columns and the total column renamed
Renamed(df) ==
    [columns |-> Plain(index_cols) \o << <<Soukei, Soukei>> >> \o Drop(df.columns, Len(index_cols) + 1),
     data |-> df.data]

\* line 202: the two classification columns filled downwards
FFill(df) ==
    [columns |-> df.columns,
     data |-> [r \in 1..Len(df.data) |->
                  [i \in 1..Len(df.columns) |->
                      IF i <= 2 THEN FFillCell(df.data, r, i) ELSE df.data[r][i]]]]

\* lines 205-210: the stacked rows as a frame, the pivot key a tuple
Long(st) ==
    [columns |-> Plain(index_cols \o <<ShuukeiTani, ShohouSuuryou>>),
     data |-> [k \in 1..Len(st) |->
                  [i \in 1..(Len(index_cols) + 2) |->
                      IF i = Len(index_cols) + 1 THEN PyTuple(st[k][i]) ELSE st[k][i]]]]

\* the frame returned, or the first exception of the three steps that can raise
Returned(d, f, g) ==
    IF FirstRaise(d) # "no" THEN Raised(FirstRaise(d))
    ELSE IF FirstRaise(f) # "no" THEN Raised(FirstRaise(f))
    ELSE IF FirstRaise(g) # "no" THEN Raised(FirstRaise(g))
    ELSE [raised |-> "no", columns |-> g.columns, data |-> g.data]

\* lines 268-274 on the decorated frame f
Finish(d, f) == Returned(d, f, AsType(f))

\* lines 255-274 on the frame d of the method branch
AfterMethod(d, fileinfo, medical_class) ==
    Finish(d, Decorate(BelowThreshold(d), fileinfo, medical_class))

\* _transform(df, fileinfo, medical_class) of one sheet as read_excel read
\* it: the long table, or the exception raised
_transform(df, fileinfo, medical_class) ==
    AfterMethod(TransformMethod(Long(Stack(FFill(Renamed(WithUnit(df))))), fileinfo),
                fileinfo, medical_class)

\* re.sub(r'\s*\(', FW(, re.sub(r'\)', FW), sheet_name))
RECURSIVE SpaceRun(_, _)
SpaceRun(s, i) == IF i <= Len(s) /\ s[i] = " " THEN 1 + SpaceRun(s, i + 1) ELSE 0

RECURSIVE SubOpen(_, _)
SubOpen(s, i) ==
    IF i > Len(s) THEN <<>>
    ELSE LET j == i + SpaceRun(s, i)
         IN IF j <= Len(s) /\ s[j] = "(" THEN <<"FW(">> \o SubOpen(s, j + 1)
            ELSE <<s[i]>> \o SubOpen(s, i + 1)

SubClose(s) == [i \in 1..Len(s) |-> IF s[i] = ")" THEN "FW)" ELSE s[i]]

NormalizeSheetName(sheet_name) == SubOpen(SubClose(sheet_name), 1)

\* `medical_class not in condition_medical_class` guarded by the truth of
\* the condition: `in` is the substring test when the condition is a str
\* and the element test when it is a list
SheetSkipped(condition_medical_class, medical_class) ==
    /\ Truthy(condition_medical_class)
    /\ IF condition_medical_class.t = "str"
       THEN ~IsSubstr(medical_class, condition_medical_class.v)
       ELSE ~InList(PyStr(medical_class), condition_medical_class.v)

\* lines 180-187: the rows kept when the totals are not asked for
DropTotal(df, method) ==
    LET col == IF method = PyStr(SeiNenreiBetsu) THEN Seibetsu
               ELSE IF method = PyStr(TodoufukenBetsu) THEN TodoufukenMei
               ELSE ShinryouTsuki
    IN IF method \in {PyStr(SeiNenreiBetsu), PyStr(TodoufukenBetsu), PyStr(ShinryouTsukiBetsu)}
       THEN [raised |-> "no", columns |-> df.columns,
             data |-> SelectIdx(df.data,
                                [r \in 1..Len(df.data) |-> Cell(df, df.data[r], col) # PyStr(Soukei)], 1)]
       ELSE df

\* pd.concat([a, b], axis=0) of two frames with the same columns, or of the
\* empty frame and a frame
Concat(a, b) ==
    IF a.columns = <<>> THEN [raised |-> "no", columns |-> b.columns, data |-> b.data]
    ELSE IF b.columns = <<>> THEN a
    ELSE [raised |-> "no", columns |-> a.columns, data |-> a.data \o b.data]

EmptyFrame == [raised |-> "no", columns |-> <<>>, data |-> <<>>]

\* lines 168-170: the dict data, care setting -> sheet
RECURSIVE SheetDict(_, _)
SheetDict(dfs, data) ==
    IF dfs = <<>> THEN data
    ELSE SheetDict(Tail(dfs),
             DictSet(data, _search(medical_class_values, NormalizeSheetName(Head(dfs).name), <<>>),
                     Head(dfs).df))

\* lines 173-191: the loop over data
RECURSIVE ReadLoop(_, _, _, _, _)
ReadLoop(data, fileinfo, condition_medical_class, include_total, concat_df) ==
    IF data = <<>> THEN concat_df
    ELSE IF SheetSkipped(condition_medical_class, Head(data).key)
    THEN ReadLoop(Tail(data), fileinfo, condition_medical_class, include_total, concat_df)
    ELSE LET df == _transform(Head(data).val, fileinfo, Head(data).key)
         IN IF df.raised # "no" THEN df
            ELSE ReadLoop(Tail(data), fileinfo, condition_medical_class, include_total,
                          Concat(concat_df, IF include_total THEN df ELSE DropTotal(df, fileinfo.method)))

\* _read_file(fileinfo, condition_medical_class, include_total), dfs being
\* the workbook pd.read_excel reads at fileinfo.url: a sequence of
\* [name, df], one per sheet
_read_file(fileinfo, dfs, condition_medical_class, include_total) ==
    ReadLoop(SheetDict(dfs, <<>>), fileinfo, condition_medical_class, include_total, EmptyFrame)


(***************************************************************************)
(* Workbooks: the sheets pd.read_excel(header=[2,3], dtype=str) can read   *)
(***************************************************************************)
MaxKeys == 2      \* pivoted columns after the total column
MaxRows == 2      \* drug rows of a sheet
MaxSheets == 2    \* sheets of a workbook

Otoko == <<"otoko">>                           \* male
OnnaSei == <<"onna", "sei">>                   \* female, with the suffix some cycles write
Age0 == <<"0", "~", "4", "sai">>
Age5 == <<"5", "~", "9", "sai">>
Hokkaidou == <<"hokkai", "dou">>
Tsuki1 == <<"1", "tsuki">>                     \* January
Tsuki4 == <<"4", "tsuki">>                     \* April

\* the two header rows of a pivoted column, for each method, in the order
\* of the sheet
KeyPool(method) ==
    IF method = SeiNenreiBetsu
    THEN << <<Otoko, Age0>>, <<OnnaSei, Age5>>, <<Otoko, Soukei>>, <<Soukei, Age0>> >>
    ELSE IF method = TodoufukenBetsu
    THEN << <<<<"0", "1">>, Hokkaidou>>, <<<<"1", "3">>, Soukei>>, <<Soukei, Hokkaidou>> >>
    ELSE << <<Tsuki4, Unnamed>>, <<Tsuki1, Unnamed>>, <<Tsuki4, Soukei>>, <<Soukei, Unnamed>> >>

\* the pivot headers of a sheet of the method: up to MaxKeys of its keys,
\* each once
Headers(method) ==
    { SelectIdx(KeyPool(method), [i \in 1..Len(KeyPool(method)) |-> i \in S], 1) :
          S \in { T \in SUBSET (1..Len(KeyPool(method))) : Cardinality(T) <= MaxKeys } }

\* a cell of a pivoted column: suppressed, a quantity, or empty
CellPool == { PyStr(<<"-">>), PyStr(<<"7">>), PyNaN }
\* a cell of the total column, which the source always fills
TotalPool == { PyStr(<<"-">>), PyStr(<<"1", "2">>) }

\* The frame of a sheet: the identification columns (without the unit column
\* before the third cycle), the total column and the pivoted columns, with
\* nrows drug rows.  The second row leaves the two classification cells
\* empty, as a merged cell reads.  tag marks the drug name of the sheet.
Sheet(unit, header, total, cells, nrows, tag) ==
    LET ids == IF unit THEN index_cols
               ELSE SelectIdx(index_cols, [i \in 1..Len(index_cols) |-> index_cols[i] # Tani], 1)
        idcell(r, name) ==
            IF name \in {YakkouBunrui, YakkouBunruiMeishou}
            THEN (IF r = 1 THEN PyStr(<<"1", "1", "4">>) ELSE PyNaN)
            ELSE IF name = Iyakuhinmei THEN PyStr(<<tag>>)
            ELSE IF name = Tani THEN PyStr(<<"jou">>)
            ELSE IF name = KouhatsuhinKubun THEN PyStr(<<"0">>)
            ELSE PyStr(<<Digits[r + 1], "5">>)
    IN [columns |-> [i \in 1..Len(ids) |-> <<ids[i], Unnamed>>] \o << <<Soukei, Unnamed>> >> \o header,
        data |-> [r \in 1..nrows |->
                     [i \in 1..Len(ids) |-> idcell(r, ids[i])] \o <<total>> \o cells]]


(***************************************************************************)
(* The filter and the public operations.  The outcome of a call is         *)
(* [kind, exc, columns, data, files, fetched]: kind is "frame", "None",    *)
(* "list" (of files) or "raise"; fetched counts the workbooks read or      *)
(* downloaded by the call.                                                 *)
(***************************************************************************)
Outcome(kind, exc, frame, files, fetched) ==
    [kind |-> kind, exc |-> exc, columns |-> frame.columns, data |-> frame.data,
     files |-> files, fetched |-> fetched]

Keep(files, P(_)) == SelectIdx(files, [i \in 1..Len(files) |-> P(files[i])], 1)

\* _filter_files without the wildcard: a descriptor with no care setting
\* of its own is held to the care-setting filter like any other
_filter_files_no_wildcard(catalog, nth, year, dosage, medical_class, method) ==
    LET f0 == catalog
        f1 == IF Truthy(nth)
              THEN (IF nth.t = "int" THEN Keep(f0, LAMBDA f : f.nth = nth)
                    ELSE Keep(f0, LAMBDA f : InList(f.nth, nth.v)))
              ELSE IF Truthy(year)
              THEN (IF year.t = "int" THEN Keep(f0, LAMBDA f : f.nth = PyInt(year.v - 2013))
                    ELSE LET nths == [i \in 1..Len(year.v) |-> PyInt(year.v[i].v - 2013)]
                         IN Keep(f0, LAMBDA f : InList(f.nth, nths)))
              ELSE f0
        f2 == IF Truthy(dosage)
              THEN (IF dosage.t = "str" THEN Keep(f1, LAMBDA f : f.dosage = dosage)
                    ELSE Keep(f1, LAMBDA f : InList(f.dosage, dosage.v)))
              ELSE f1
        f3 == IF Truthy(medical_class)
              THEN (IF medical_class.t = "str"
                    THEN Keep(f2, LAMBDA f : f.medical_class = medical_class)
                    ELSE Keep(f2, LAMBDA f : InList(f.medical_class, medical_class.v)))
              ELSE f2
        f4 == IF Truthy(method)
              THEN (IF method.t = "str" THEN Keep(f3, LAMBDA f : f.method = method)
                    ELSE Keep(f3, LAMBDA f : InList(f.method, method.v)))
              ELSE f3
    IN f4

\* _filter_files(nth, year, dosage, medical_class, method) over the catalog
_filter_files(catalog, nth, year, dosage, medical_class, method) ==
    LET f0 == catalog
        f1 == IF Truthy(nth)
              THEN (IF nth.t = "int" THEN Keep(f0, LAMBDA f : f.nth = nth)
                    ELSE Keep(f0, LAMBDA f : InList(f.nth, nth.v)))
              ELSE IF Truthy(year)
              THEN (IF year.t = "int" THEN Keep(f0, LAMBDA f : f.nth = PyInt(year.v - 2013))
                    ELSE LET nths == [i \in 1..Len(year.v) |-> PyInt(year.v[i].v - 2013)]
                         IN Keep(f0, LAMBDA f : InList(f.nth, nths)))
              ELSE f0
        f2 == IF Truthy(dosage)
              THEN (IF dosage.t = "str" THEN Keep(f1, LAMBDA f : f.dosage = dosage)
                    ELSE Keep(f1, LAMBDA f : InList(f.dosage, dosage.v)))
              ELSE f1
        f3 == IF Truthy(medical_class)
              THEN (IF medical_class.t = "str"
                    THEN Keep(f2, LAMBDA f : f.medical_class = medical_class
                                             \/ f.medical_class = PyStr(medical_class_default_value))
                    ELSE Keep(f2, LAMBDA f : InList(f.medical_class, medical_class.v)
                                             \/ f.medical_class = PyStr(medical_class_default_value)))
              ELSE f2
        f4 == IF Truthy(method)
              THEN (IF method.t = "str" THEN Keep(f3, LAMBDA f : f.method = method)
                    ELSE Keep(f3, LAMBDA f : InList(f.method, method.v)))
              ELSE f3
    IN f4

\* lines 352-357: the loop of _load over the files, each read from the
\* workbook the site serves, and the concatenation of the frames; the first
\* exception ends it
RECURSIVE LoadLoop(_, _, _, _, _, _)
LoadLoop(files, dfs, medical_class, include_total, acc, n) ==
    IF files = <<>> THEN Outcome("frame", "no", acc, <<>>, n)
    ELSE LET df == _read_file(Head(files), dfs, medical_class, include_total)
         IN IF df.raised # "no" THEN Outcome("raise", df.raised, EmptyFrame, <<>>, n + 1)
            ELSE LoadLoop(Tail(files), dfs, medical_class, include_total, Concat(acc, df), n + 1)

\* _load without its test for an empty list of files: the loop runs over
\* nothing and the empty frame is returned
_load_no_sentinel(catalog, method, nth, year, dosage, medical_class, include_total, dfs) ==
    IF ~InList(method, method_values) THEN Outcome("raise", "AssertionError", EmptyFrame, <<>>, 0)
    ELSE LoadLoop(_filter_files(catalog, nth, year, dosage, medical_class, PyStr(method)),
                  dfs, medical_class, include_total, EmptyFrame, 0)

\* _load(method, nth=, year=, dosage=, medical_class=, include_total=) with
\* dfs the workbook behind every url
_load(catalog, method, nth, year, dosage, medical_class, include_total, dfs) ==
    IF ~InList(method, method_values) THEN Outcome("raise", "AssertionError", EmptyFrame, <<>>, 0)
    ELSE LET files == _filter_files(catalog, nth, year, dosage, medical_class, PyStr(method))
         IN IF Len(files) = 0 THEN Outcome("None", "no", EmptyFrame, <<>>, 0)
            ELSE LoadLoop(files, dfs, medical_class, include_total, EmptyFrame, 0)

\* save(save_dir, nth=, ...): the names of the files written, in order;
\* _get_file raises when save_dir is no directory
save(catalog, isdir, nth, year, dosage, medical_class, method) ==
    LET fileinfos == _filter_files(catalog, nth, year, dosage, medical_class, method)
    IN IF fileinfos # <<>> /\ ~isdir THEN Outcome("raise", "FileNotFoundError", EmptyFrame, <<>>, 0)
       ELSE Outcome("list", "no", EmptyFrame,
                    [i \in 1..Len(fileinfos) |-> SaveName(fileinfos[i])], Len(fileinfos))

\* read_excel(filepath, medical_class, include_total=) of a file whose
\* workbook is dfs
read_excel(filepath, isdir, dfs, medical_class, include_total) ==
    IF ~isdir THEN Outcome("raise", "FileNotFoundError", EmptyFrame, <<>>, 0)
    ELSE LET fileinfo == _parse_to_fileinfo(filepath)
         IN IF fileinfo = PyNone THEN Outcome("raise", "AssertionError", EmptyFrame, <<filepath>>, 0)
            ELSE LET df == _read_file(fileinfo, dfs, medical_class, include_total)
                 IN IF df.raised # "no" THEN Outcome("raise", df.raised, EmptyFrame, <<>>, 1)
                    ELSE Outcome("frame", "no", df, <<>>, 1)

(***************************************************************************)
(* NDBMedicine.__init__                                                    *)
(***************************************************************************)
\* the try block: _get_page_links, its exception caught and logged
GetPageLinks ==
    /\ pc = "new"
    /\ \E r \in Responses(IndexTagPool, MaxIndexTags) :
          LET got == _get_page_links(r)
          IN /\ page_links' = got.links
             /\ warned' = got.raised
             /\ todo' = [i \in 1..Len(got.links) |-> got.links[i].key]
    /\ pc' = "links"
    /\ UNCHANGED <<fileinfo_list, disk, call, result>>

\* one turn of the loop over page_links: _get_fileinfos(nth), whose
\* exception nothing catches
GetFileinfos ==
    /\ pc = "links"
    /\ todo # <<>>
    /\ \E r \in Responses(DetailTagPool, MaxTags) :
          LET got == _get_fileinfos(Head(todo), r)
          IN IF got.raised = "no"
             THEN /\ fileinfo_list' = fileinfo_list \o got.added
                  /\ todo' = Tail(todo)
                  /\ UNCHANGED <<pc, result>>
             ELSE /\ pc' = "raised"
                  /\ result' = Outcome("raise", got.raised, EmptyFrame, <<>>, 0)
                  /\ UNCHANGED <<fileinfo_list, todo>>
    /\ UNCHANGED <<page_links, warned, disk, call>>

\* the loop is over: the object is constructed
Constructed ==
    /\ pc = "links"
    /\ todo = <<>>
    /\ pc' = "ready"
    /\ UNCHANGED <<page_links, fileinfo_list, todo, warned, disk, call, result>>

(***************************************************************************)
(* The inputs of the calls                                                 *)
(***************************************************************************)
MaxCatalog == 2   \* descriptors of a catalog that is drawn, not discovered

SheetNamePool ==
    { <<"gai", "rai", " ", "(", "in", "nai", ")">>,   \* half-width parentheses, as some cycles write
      Nyuuin,
      <<"S", "h", "e", "e", "t", "1">> }              \* a name with no care setting in it

\* a pivoted column of a workbook of the method, after the total column
StdKey(method) ==
    IF method = SeiNenreiBetsu THEN <<OnnaSei, Age5>>
    ELSE IF method = TodoufukenBetsu THEN <<<<"0", "1">>, Hokkaidou>>
    ELSE <<Tsuki1, Unnamed>>

\* the workbook of a method with the sheets named: the k-th sheet names
\* its drug after k
Book(method, names) ==
    [k \in 1..Len(names) |->
        [name |-> names[k],
         df |-> Sheet(TRUE, <<StdKey(method)>>, PyStr(<<"1", "2">>), <<PyStr(<<"-">>)>>, 1, Digits[k + 1])]]

Books(method) == { Book(method, names) : names \in SeqsUpTo(SheetNamePool, MaxSheets) }

\* descriptors discovery appends: an int cycle, a known dosage form, a care
\* setting and a method found in the anchor text or ''
DescPool ==
    { FileInfo(PyInt(1), PyStr(Naifuku), PyStr(GairaiInnai), PyStr(SeiNenreiBetsu), PyStr(<<"http", "/", "a1">>)),
      FileInfo(PyInt(1), PyStr(Gaiyou), PyStr(Nyuuin), PyStr(TodoufukenBetsu), PyStr(<<"http", "/", "a2">>)),
      FileInfo(PyInt(10), PyStr(Naifuku), PyStr(<<>>), PyStr(ShinryouTsukiBetsu), PyStr(<<"http", "/", "a3">>)),
      FileInfo(PyInt(10), PyStr(ShikayouYakuzai), PyStr(<<>>), PyStr(SeiNenreiBetsu), PyStr(<<"http", "/", "a4">>)),
      FileInfo(PyInt(2), PyStr(Naifuku), PyStr(<<>>), PyStr(<<>>), PyStr(<<"http", "/", "a5">>)) }

\* a filter argument: None, a value, or a list of values (which may be empty)
NthArgs == { PyNone, PyInt(1), PyList(<<PyInt(1), PyInt(2)>>), PyList(<<PyInt(10)>>), PyList(<<>>) }
YearArgs == { PyNone, PyInt(2014), PyList(<<PyInt(2015), PyInt(2023)>>) }
DosageArgs == { PyNone, PyStr(Naifuku), PyList(<<PyStr(Gaiyou), PyStr(ShikayouYakuzai)>>) }
ClassArgs == { PyNone, PyStr(Nyuuin), PyList(<<PyStr(GairaiInnai), PyStr(GairaiIngai)>>), PyList(<<>>) }
MethodArgs ==
    { PyNone, PyStr(ShinryouTsukiBetsu), PyList(<<PyStr(SeiNenreiBetsu), PyStr(TodoufukenBetsu)>>) }

\* the calls with one filter given as a single value and the others omitted
ScalarArgs ==
    { [nth |-> n, year |-> PyNone, dosage |-> PyNone, medical_class |-> PyNone] :
          n \in {PyInt(1)} }
    \cup { [nth |-> PyNone, year |-> y, dosage |-> PyNone, medical_class |-> PyNone] :
          y \in {PyInt(2023)} }
    \cup { [nth |-> PyNone, year |-> PyNone, dosage |-> d, medical_class |-> PyNone] :
          d \in {PyStr(Naifuku)} }
    \cup { [nth |-> PyNone, year |-> PyNone, dosage |-> PyNone, medical_class |-> m] :
          m \in {PyStr(Nyuuin), PyStr(GairaiInnai)} }

Methods == { method_values[i] : i \in 1..Len(method_values) }

NoCall == [op |-> "none"]
NoResult == Outcome("none", "no", EmptyFrame, <<>>, 0)

(***************************************************************************)
(* The public operations of a constructed object                           *)
(***************************************************************************)
LoadCall(method, nth, year, dosage, medical_class, include_total, dfs) ==
    /\ pc = "ready"
    /\ call = NoCall
    /\ call' = [op |-> "load", method |-> method, nth |-> nth, year |-> year, dosage |-> dosage,
                medical_class |-> medical_class, include_total |-> include_total, dfs |-> dfs]
    /\ result' = _load(fileinfo_list, method, nth, year, dosage, medical_class, include_total, dfs)
    /\ UNCHANGED <<pc, page_links, fileinfo_list, todo, warned, disk>>

\* load_age, load_pref, load_month of a discovered catalog
Load ==
    \E method \in Methods, nth \in {PyNone, PyInt(1), PyList(<<PyInt(1), PyInt(2)>>), PyInt(10)},
       medical_class \in {PyNone, PyStr(Nyuuin)}, include_total \in BOOLEAN :
       \E dfs \in { Book(method, <<Nyuuin>>) } :
          LoadCall(method, nth, PyNone, PyNone, medical_class, include_total, dfs)

\* the call is over
Return ==
    /\ call # NoCall
    /\ call' = NoCall
    /\ result' = NoResult
    /\ UNCHANGED <<pc, page_links, fileinfo_list, todo, warned, disk>>

\* _filter_files, as load and save call it
FilterFiles ==
    /\ pc = "ready"
    /\ call = NoCall
    /\ \E nth \in NthArgs, year \in YearArgs, dosage \in DosageArgs,
          medical_class \in ClassArgs, method \in MethodArgs :
          /\ call' = [op |-> "_filter_files", nth |-> nth, year |-> year, dosage |-> dosage,
                      medical_class |-> medical_class, method |-> method]
          /\ result' = Outcome("list", "no", EmptyFrame,
                                _filter_files(fileinfo_list, nth, year, dosage, medical_class, method), 0)
    /\ UNCHANGED <<pc, page_links, fileinfo_list, todo, warned, disk>>

\* load_age, load_pref, load_month with one filter given as a single value
LoadScalar ==
    \E method \in Methods, a \in ScalarArgs :
       \E dfs \in Books(method) :
          LoadCall(method, a.nth, a.year, a.dosage, a.medical_class, FALSE, dfs)

\* _read_file of a descriptor of the catalog on a workbook of one sheet
ReadFile ==
    /\ pc = "ready"
    /\ call = NoCall
    /\ \E i \in 1..Len(fileinfo_list), unit \in BOOLEAN, total \in TotalPool, nrows \in 1..MaxRows,
          include_total \in BOOLEAN :
          \E header \in Headers(fileinfo_list[i].method.v) :
             \E cells \in [1..Len(header) -> CellPool] :
                LET dfs == <<[name |-> Nyuuin, df |-> Sheet(unit, header, total, cells, nrows, "1")]>>
                    df == _read_file(fileinfo_list[i], dfs, PyNone, include_total)
                IN /\ call' = [op |-> "_read_file", fileinfo |-> fileinfo_list[i], dfs |-> dfs,
                               medical_class |-> PyNone, include_total |-> include_total]
                   /\ result' = IF df.raised # "no"
                                 THEN Outcome("raise", df.raised, EmptyFrame, <<>>, 1)
                                 ELSE Outcome("frame", "no", df, <<>>, 1)
    /\ UNCHANGED <<pc, page_links, fileinfo_list, todo, warned, disk>>

\* file names a user may hand to read_excel besides the saved ones: a saved
\* name with its cycle number cut off, with one digit only, with the suffix
\* of the earlier convention, with text after the phrase, with text before
\* the cycle number, and a name of another kind
ForeignNames ==
    LET f == FileInfo(PyInt(3), PyStr(Chuusha), PyStr(Nyuuin), PyStr(TodoufukenBetsu), PyStr(<<>>))
    IN { SaveName(f),
         Drop(SaveName(f), 2),
         Drop(SaveName(f), 1),
         FileInfoStr(f) \o <<"_">> \o Ika \o Xlsx,
         FileInfoStr(f) \o <<"(", "1", ")">> \o Xlsx,
         <<"x">> \o SaveName(f),
         <<"m", "e", "m", "o">> \o Xlsx }

\* the method in a file name, by-sex-and-age when none is found
NameMethod(name) == _search(method_values, name, SeiNenreiBetsu)

\* save(save_dir, ...) into an empty directory: every file is written with
\* the workbook the site serves for it
Save ==
    /\ pc = "ready"
    /\ call = NoCall
    /\ disk = <<>>
    /\ \E isdir \in BOOLEAN, method \in {PyNone, PyStr(SeiNenreiBetsu)} :
          LET got == save(fileinfo_list, isdir, PyNone, PyNone, PyNone, PyNone, method)
              RECURSIVE Written(_, _)
              Written(names, d) ==
                  IF names = <<>> THEN d
                  ELSE Written(Tail(names),
                               DictSet(d, Head(names), Book(NameMethod(Head(names)), <<Nyuuin>>)))
          IN /\ call' = [op |-> "save", isdir |-> isdir, nth |-> PyNone, year |-> PyNone,
                         dosage |-> PyNone, medical_class |-> PyNone, method |-> method]
             /\ result' = got
             /\ disk' = Written(got.files, disk)
    /\ UNCHANGED <<pc, page_links, fileinfo_list, todo, warned>>

\* read_excel(filepath, medical_class, include_total=) of a saved file or of
\* another file of the directory
ReadExcel ==
    /\ pc = "ready"
    /\ call = NoCall
    /\ \E filepath \in { disk[i].key : i \in 1..Len(disk) } \cup ForeignNames,
          isdir \in BOOLEAN, medical_class \in {PyNone, PyStr(Nyuuin)}, include_total \in BOOLEAN :
          LET saved == { i \in 1..Len(disk) : disk[i].key = filepath }
              dfs == IF saved # {} THEN disk[CHOOSE i \in saved : TRUE].val
                     ELSE Book(NameMethod(filepath), <<Nyuuin>>)
          IN /\ call' = [op |-> "read_excel", filepath |-> filepath, isdir |-> isdir, dfs |-> dfs,
                         medical_class |-> medical_class, include_total |-> include_total]
             /\ result' = read_excel(filepath, isdir, dfs, medical_class, include_total)
    /\ UNCHANGED <<pc, page_links, fileinfo_list, todo, warned, disk>>

Init ==
    /\ pc = "new"
    /\ page_links = <<>>
    /\ fileinfo_list = <<>>
    /\ todo = <<>>
    /\ warned = FALSE
    /\ disk = <<>>
    /\ call = NoCall
    /\ result = NoResult

Next == GetPageLinks \/ GetFileinfos \/ Constructed \/ Load \/ Return

Spec == Init /\ [][Next]_vars

\* the dict of links of a catalog: a link for every cycle it holds
RECURSIVE LinksOf(_, _)
LinksOf(catalog, links) ==
    IF catalog = <<>> THEN links
    ELSE LinksOf(Tail(catalog), DictSet(links, Head(catalog).nth.v, domain_mhlw \o <<"/", "c">>))

\* a constructed object whose catalog is drawn from the descriptors
\* discovery can append
InitCatalog ==
    /\ pc = "ready"
    /\ fileinfo_list \in SeqsUpTo(DescPool, MaxCatalog)
    /\ page_links = LinksOf(fileinfo_list, <<>>)
    /\ todo = <<>>
    /\ warned = FALSE
    /\ disk = <<>>
    /\ call = NoCall
    /\ result = NoResult

\* a constructed object whose catalog holds one descriptor, of any method
InitTransform ==
    /\ InitCatalog
    /\ Len(fileinfo_list) = 1
    /\ fileinfo_list[1].method # PyStr(<<>>)

NextTransform == ReadFile \/ Return

SpecTransform == InitTransform /\ [][NextTransform]_vars

NextLocal == Save \/ ReadExcel \/ Return

SpecLocal == InitCatalog /\ [][NextLocal]_vars

NextFilter == FilterFiles \/ LoadScalar \/ Return

SpecFilter == InitCatalog /\ [][NextFilter]_vars

\* the elements of a detail page: those of DetailTagPool and a level-4
\* heading with no text
SectionTagPool == DetailTagPool \cup { H4(<<>>) }

\* the object in __init__ after _get_page_links found one cycle, the first
\* or the tenth
InitLinks ==
    /\ pc = "links"
    /\ todo \in { <<1>>, <<10>> }
    /\ page_links = <<[key |-> Head(todo), val |-> domain_mhlw \o <<"/", "c">>]>>
    /\ fileinfo_list = <<>>
    /\ warned = FALSE
    /\ disk = <<>>
    /\ call = NoCall
    /\ result = NoResult

\* _get_fileinfos(nth) of the loop of __init__, with the page it read and
\* the descriptors it appended kept for the caller to see
Discover ==
    /\ pc = "links"
    /\ todo # <<>>
    /\ call = NoCall
    /\ \E r \in Responses(SectionTagPool, MaxTags) :
          /\ call' = [op |-> "_get_fileinfos", nth |-> Head(todo), r |-> r]
          /\ IF _get_fileinfos(Head(todo), r).raised = "no"
             THEN /\ fileinfo_list' = fileinfo_list \o _get_fileinfos(Head(todo), r).added
                  /\ todo' = Tail(todo)
                  /\ result' = Outcome("list", "no", EmptyFrame, _get_fileinfos(Head(todo), r).added, 1)
                  /\ UNCHANGED pc
             ELSE /\ pc' = "raised"
                  /\ result' = Outcome("raise", _get_fileinfos(Head(todo), r).raised, EmptyFrame, <<>>, 1)
                  /\ UNCHANGED <<fileinfo_list, todo>>
    /\ UNCHANGED <<page_links, warned, disk>>

NextDiscover == Discover \/ Return

SpecDiscover == InitLinks /\ [][NextDiscover]_vars

\* the sheet names of a workbook: those of SheetNamePool and a second name
\* with no care setting in it
BookNames == SheetNamePool \cup { <<"S", "h", "e", "e", "t", "2">> }

\* the workbooks of a method: up to MaxSheets sheets, no two of one name (a
\* workbook names each sheet once)
DistinctBooks(method) ==
    { Book(method, names) :
          names \in { q \in SeqsUpTo(BookNames, MaxSheets) :
                          \A i, j \in 1..Len(q) : q[i] = q[j] => i = j } }

\* what a call of _read_file gives its caller: the frame, or the exception
ReadOutcome(df) ==
    IF df.raised # "no" THEN Outcome("raise", df.raised, EmptyFrame, <<>>, 1)
    ELSE Outcome("frame", "no", df, <<>>, 1)

\* _read_file of a descriptor of the catalog on a workbook of several
\* sheets, with no care-setting filter or with a list of care settings
ReadBook ==
    /\ pc = "ready"
    /\ call = NoCall
    /\ \E i \in 1..Len(fileinfo_list), include_total \in BOOLEAN,
          medical_class \in {PyNone, PyList(<<PyStr(Nyuuin)>>),
                             PyList(<<PyStr(GairaiInnai), PyStr(GairaiIngai)>>)} :
          \E dfs \in DistinctBooks(fileinfo_list[i].method.v) :
             /\ call' = [op |-> "_read_file", fileinfo |-> fileinfo_list[i], dfs |-> dfs,
                         medical_class |-> medical_class, include_total |-> include_total]
             /\ result' = ReadOutcome(_read_file(fileinfo_list[i], dfs, medical_class, include_total))
    /\ UNCHANGED <<pc, page_links, fileinfo_list, todo, warned, disk>>

NextSheets == ReadBook \/ Return

SpecSheets == InitTransform /\ [][NextSheets]_vars

(***************************************************************************)
(* What the claims speak of                                                *)
(***************************************************************************)
\* a filter value the code acts on: neither None nor an empty list (nor 0 or '')
Given(x) == x # PyNone /\ x # PyList(<<>>) /\ x # PyInt(0) /\ x # PyStr(<<>>)

\* the values a filter names, a scalar naming itself
Values(x) == IF x.t = "list" THEN { x.v[i] : i \in 1..Len(x.v) } ELSE { x }

\* descriptor f passes the filters of call c, a filter counting as supplied when P says so
Passes(f, c, P(_)) ==
    /\ P(c.nth) => f.nth \in Values(c.nth)
    /\ (~P(c.nth) /\ P(c.year)) => PyInt(f.nth.v + 2013) \in Values(c.year)
    /\ P(c.dosage) => f.dosage \in Values(c.dosage)
    /\ P(c.medical_class) => f.medical_class \in Values(c.medical_class) \cup {PyStr(<<>>)}
    /\ P(c.method) => f.method \in Values(c.method)

Matching(c) == { i \in 1..Len(fileinfo_list) : Passes(fileinfo_list[i], c, Given) }

LoadFilters(c) == [c EXCEPT !.method = PyStr(c.method)]

\* the cycle numbers asked for are all below 10
BelowTen(nth) == Given(nth) /\ \A x \in Values(nth) : x.v < 10

\* a filter value that was passed: anything but None
NotNone(x) == x # PyNone

\* a single value, not a list
Scalar(x) == x.t \in {"int", "str"}

(***************************************************************************)
(* C1 *)
(***************************************************************************)
\* C1: for each of nth, year, dosage and medical_class, a load called with
\* the single value v returns what the same load called with the list [v]
\* returns, for every catalog and every workbook.
C1_ScalarEqualsSingleton ==
    call.op = "load" =>
        \A p \in {"nth", "year", "dosage", "medical_class"} :
            Scalar(call[p]) =>
                LET c == [call EXCEPT ![p] = PyList(<<call[p]>>)]
                IN result = _load(fileinfo_list, c.method, c.nth, c.year, c.dosage,
                                  c.medical_class, c.include_total, c.dfs)

(***************************************************************************)
(* C7 *)
(***************************************************************************)
\* C7 as stated: _filter_files returns, in catalog order, exactly the
\* descriptors that pass every filter supplied (nth; year only when nth is
\* not given, as nth = year - 2013; dosage; method; medical_class, which a
\* descriptor with no care setting always passes), a filter being supplied
\* when a value was passed for it.
C7_FilterLiteral ==
    call.op = "_filter_files" =>
        result.files = SelectIdx(fileinfo_list,
                                 [i \in 1..Len(fileinfo_list) |-> Passes(fileinfo_list[i], call, NotNone)], 1)

\* C7 as amended: the same, a filter counting as supplied only when its
\* value is neither None nor empty: an empty list passes every descriptor,
\* and an empty nth lets year apply.
C7_FilterExact ==
    call.op = "_filter_files" =>
        result.files = SelectIdx(fileinfo_list,
                                 [i \in 1..Len(fileinfo_list) |-> Passes(fileinfo_list[i], call, Given)], 1)

\* a call with a care-setting filter and another filter that keeps a
\* descriptor with no care setting and drops another descriptor
C7_Witness ==
    /\ call.op = "_filter_files"
    /\ Given(call.medical_class)
    /\ Given(call.nth) \/ Given(call.year)
    /\ \E i \in 1..Len(result.files) : result.files[i].medical_class = PyStr(<<>>)
    /\ Len(result.files) < Len(fileinfo_list)

C6_ConstructionNeverRaises == pc # "raised"

(***************************************************************************)
(* C2 *)
(***************************************************************************)
\* the cell of column name in row k of the frame a call returned
ResultCell(k, name) == result.data[k][ColIdx(result.columns, name)]

\* C2: with include_total=False the table _read_file returns has no row
\* that carries a total sentinel, whatever the pivot header of the sheet:
\* no by-sex-and-age row with age -1, no by-prefecture row with region code
\* "00", no by-month row whose month or year/month is the total token.
C2_NoSentinelWithoutTotal ==
    (call.op = "_read_file" /\ ~call.include_total /\ result.kind = "frame") =>
        \A k \in 1..Len(result.data) :
            /\ call.fileinfo.method = PyStr(SeiNenreiBetsu) => ResultCell(k, Nenrei) # PyInt(-1)
            /\ call.fileinfo.method = PyStr(TodoufukenBetsu)
                   => ResultCell(k, TodoufukenCode) # PyStr(<<"0", "0">>)
            /\ call.fileinfo.method = PyStr(ShinryouTsukiBetsu)
                   => /\ ResultCell(k, ShinryouTsuki) # PyStr(Soukei)
                      /\ ResultCell(k, ShinryouNengetsu) # PyStr(Soukei)

(***************************************************************************)
(* C3 *)
(***************************************************************************)
\* the sheet a _read_file call was given
SourceSheet == call.dfs[1].df

\* the quantity cells of the sheet, row by row, the empty ones left out: the
\* cells after the identification columns
SourceCells ==
    LET n == IF \E i \in 1..Len(SourceSheet.columns) : SourceSheet.columns[i][1] = Tani
             THEN Len(index_cols) ELSE Len(index_cols) - 1
        cellsOf(r) == Drop(SourceSheet.data[r], n)
    IN Flatten([r \in 1..Len(SourceSheet.data) |->
                   SelectIdx(cellsOf(r), [j \in 1..Len(cellsOf(r)) |-> cellsOf(r)[j] # PyNaN], 1)])

\* the number a quantity cell of the workbooks writes
NumberOf(c) ==
    CASE c = PyStr(<<"7">>) -> 7
      [] c = PyStr(<<"1", "2">>) -> 12

\* the quantity and the flag a source cell is documented to give
Encoded(c) ==
    IF c = PyStr(<<"-">>) THEN <<PyFloat(0), PyInt(1)>> ELSE <<PyFloat(NumberOf(c)), PyInt(0)>>

\* the quantity and the flag of row k of the frame returned
Encoding(k) == <<ResultCell(k, ShohouSuuryou), ResultCell(k, SaishouShuukeiTaniMiman)>>

\* C3: every row _transform puts out has flag 1 and quantity 0 when its
\* source cell was '-', and flag 0 and the number of the cell otherwise; no
\* row has a missing quantity.  With the totals kept, the rows are those of
\* the source cells that are not empty, in order.
C3_BelowThresholdEncoding ==
    (call.op = "_read_file" /\ result.kind = "frame") =>
        /\ \A k \in 1..Len(result.data) :
              /\ Encoding(k)[1].t = "float"
              /\ Encoding(k)[2] \in {PyInt(0), PyInt(1)}
              /\ Encoding(k)[2] = PyInt(1) => Encoding(k)[1] = PyFloat(0)
              /\ \E j \in 1..Len(SourceCells) : Encoding(k) = Encoded(SourceCells[j])
        /\ call.include_total =>
              [k \in 1..Len(result.data) |-> Encoding(k)]
                  = [j \in 1..Len(SourceCells) |-> Encoded(SourceCells[j])]

\* a sheet with a suppressed cell, a quantity and an empty cell, transformed
C3_Witness ==
    /\ call.op = "_read_file"
    /\ call.include_total
    /\ result.kind = "frame"
    /\ \E k \in 1..Len(result.data) : Encoding(k) = <<PyFloat(0), PyInt(1)>>
    /\ \E k \in 1..Len(result.data) : Encoding(k) = <<PyFloat(7), PyInt(0)>>
    /\ \E r \in 1..Len(SourceSheet.data) : \E i \in 3..Len(SourceSheet.columns) :
          SourceSheet.data[r][i] = PyNaN

(***************************************************************************)
(* C9 *)
(***************************************************************************)
\* the documented columns of a method
Schema(method) ==
    <<JisshiKai, Nendo, Zaikei, ShinryouKubun,
      YakkouBunrui, YakkouBunruiMeishou, IyakuhinCode, Iyakuhinmei, Tani,
      ShuusaiCode, Yakka, KouhatsuhinKubun>>
    \o (IF method = SeiNenreiBetsu THEN <<Seibetsu, Nenrei, NenreiKukan>>
        ELSE IF method = TodoufukenBetsu THEN <<TodoufukenCode, TodoufukenMei>>
        ELSE <<ShinryouTsuki, ShinryouNengetsu>>)
    \o <<ShohouSuuryou, SaishouShuukeiTaniMiman>>

\* C9: for each of the three methods, with or without the unit column in
\* the sheet, the columns of the table _transform returns are the cycle
\* number, the fiscal year, the dosage form, the care setting, the eight
\* identification columns, the columns of the method, the quantity and the
\* below-threshold flag, in this order.
C9_FixedSchema ==
    (call.op = "_read_file" /\ result.kind = "frame") =>
        result.columns = [i \in 1..Len(Schema(call.fileinfo.method.v)) |->
                             <<Schema(call.fileinfo.method.v)[i]>>]

\* a by-month sheet without the unit column, transformed into rows
C9_Witness ==
    /\ call.op = "_read_file"
    /\ result.kind = "frame"
    /\ call.fileinfo.method = PyStr(ShinryouTsukiBetsu)
    /\ ~\E i \in 1..Len(SourceSheet.columns) : SourceSheet.columns[i][1] = Tani
    /\ Len(result.data) > 1

(***************************************************************************)
(* C4 *)
(***************************************************************************)
\* C4: the name save writes for a descriptor of the catalog is accepted by
\* _parse_to_fileinfo, and the descriptor parsed has the cycle number, the
\* dosage form, the care setting and the method of the descriptor saved.
C4_SaveParseRoundTrip ==
    (call.op = "save" /\ result.kind = "list") =>
        LET saved == _filter_files(fileinfo_list, call.nth, call.year, call.dosage,
                                   call.medical_class, call.method)
        IN \A i \in 1..Len(result.files) :
              /\ _parse_to_fileinfo(result.files[i]) # PyNone
              /\ _parse_to_fileinfo(result.files[i]).nth = saved[i].nth
              /\ _parse_to_fileinfo(result.files[i]).dosage = saved[i].dosage
              /\ _parse_to_fileinfo(result.files[i]).medical_class = saved[i].medical_class
              /\ _parse_to_fileinfo(result.files[i]).method = saved[i].method

(***************************************************************************)
(* C8 *)
(***************************************************************************)
\* the naming convention: the whole stem is two digits, a known dosage form
\* in brackets, a known care setting or none, '_', a known method, the
\* phrase, and the suffix of the earlier convention or none
Conforming(name) ==
    /\ Len(name) > Len(Xlsx)
    /\ Drop(name, Len(name) - Len(Xlsx)) = Xlsx
    /\ LET stem == SubSeq(name, 1, Len(name) - Len(Xlsx))
       IN /\ Len(stem) > 2
          /\ IsDigit(stem[1])
          /\ IsDigit(stem[2])
          /\ \E d \in 1..Len(dosage_values), m \in 1..Len(method_values) :
                \E c \in {medical_class_values[i] : i \in 1..Len(medical_class_values)} \cup {<<>>},
                   x \in {<<>>, <<"_">> \o Ika, <<"_">> \o Shika} :
                   Drop(stem, 2) = <<"[[">> \o dosage_values[d] \o <<"]]">> \o c \o <<"_">>
                                   \o method_values[m] \o YakkouBunruiBetsuSuuryou \o x

\* C8: read_excel of a file whose name does not conform to the convention
\* fails with the validation error that names the file, and reads no
\* workbook; a name without the cycle number or with text after the phrase
\* does not conform.
C8_NonConformingRejected ==
    (call.op = "read_excel" /\ call.isdir /\ ~Conforming(call.filepath)) =>
        /\ result.kind = "raise"
        /\ result.exc = "AssertionError"
        /\ result.files = <<call.filepath>>
        /\ result.fetched = 0

(***************************************************************************)
(* C10 *)
(***************************************************************************)
\* C10: read_excel of a file save wrote for a descriptor d returns the table
\* _read_file returns for d on the same workbook, for every method, care
\* setting filter and include_total.
C10_ReadExcelEqualsLoad ==
    (call.op = "read_excel" /\ call.isdir) =>
        \A i \in 1..Len(fileinfo_list) :
            (/\ \E j \in 1..Len(disk) : disk[j].key = call.filepath
             /\ fileinfo_list[i].method # PyStr(<<>>)
             /\ SaveName(fileinfo_list[i]) = call.filepath) =>
                LET df == _read_file(fileinfo_list[i], call.dfs, call.medical_class, call.include_total)
                IN result = IF df.raised # "no"
                            THEN Outcome("raise", df.raised, EmptyFrame, <<>>, 1)
                            ELSE Outcome("frame", "no", df, <<>>, 1)

(***************************************************************************)
(* C11 *)
(***************************************************************************)
\* the care setting the name of sheet k of the workbook resolves to
Resolved(k) == _search(medical_class_values, NormalizeSheetName(call.dfs[k].name), <<>>)

\* the filter of the caller excludes sheet k
Excluded(k) ==
    call.medical_class # PyNone /\ PyStr(Resolved(k)) \notin Values(call.medical_class)

\* the rows of the table returned that carry the drug of sheet k
RowsOfSheet(k) ==
    SelectIdx(result.data,
              [r \in 1..Len(result.data) |-> ResultCell(r, Iyakuhinmei) = PyStr(<<Digits[k + 1]>>)], 1)

\* C11: every sheet of the workbook whose care setting the filter does not
\* exclude is transformed once and its rows are in the table _read_file
\* returns, also when several sheets resolve to the same care setting: the
\* rows of the sheet in the table are the rows the sheet gives alone.
C11_NoSheetLost ==
    (call.op = "_read_file" /\ result.kind = "frame") =>
        \A k \in 1..Len(call.dfs) :
            ~Excluded(k) =>
                /\ RowsOfSheet(k) # <<>>
                /\ RowsOfSheet(k)
                       = _read_file(call.fileinfo, <<call.dfs[k]>>, PyNone, call.include_total).data

(***************************************************************************)
(* C12 *)
(***************************************************************************)
\* the elements of the page a _get_fileinfos call read
PageTags == call.r.tags

\* the least and the greatest element of a set of indices, 0 when it is empty
Least(S) == IF S = {} THEN 0 ELSE CHOOSE i \in S : \A j \in S : i <= j
Greatest(S) == IF S = {} THEN 0 ELSE CHOOSE i \in S : \A j \in S : i >= j

\* the first level-3 heading of prescription drugs, 0 when the page has none
Heading ==
    Least({ i \in 1..Len(PageTags) :
                /\ PageTags[i].name = "h3"
                /\ \/ IsSubstr(ShohouYaku, PageTags[i].text)
                   \/ IsSubstr(<<"yaku", "zai">>, PageTags[i].text) })

\* anchor i lies after that heading and before the next level-3 heading
InSection(i) ==
    /\ Heading # 0
    /\ i > Heading
    /\ PageTags[i].name = "a"
    /\ \A j \in (Heading + 1)..(i - 1) : PageTags[j].name # "h3"

\* the most recent level-4 heading before element i, 0 when none was seen
LastH4(i) == Greatest({ j \in (Heading + 1)..(i - 1) : PageTags[j].name = "h4" })

\* no level-4 heading has been seen before element i
NoHeadingYet(i) == LastH4(i) = 0

\* the section text is empty at element i: no level-4 heading has been
\* seen, or the most recent one has no text
SectionEmpty(i) == LastH4(i) = 0 \/ PageTags[LastH4(i)].text = <<>>

\* the dosage form the ordered rules infer for anchor i, rule (3) being
\* open when third holds; NoMatch when no rule applies
Inferred(i, third) ==
    IF LastH4(i) # 0 /\ InList(PageTags[LastH4(i)].text, dosage_values)
    THEN PageTags[LastH4(i)].text
    ELSE IF LastH4(i) # 0 /\ PageTags[LastH4(i)].text = Shika
            /\ IsSubstr(ShikayouYakuzai, PageTags[i].text)
    THEN ShikayouYakuzai
    ELSE IF third /\ Len(PageTags[i].text) >= 2 /\ InList(SubSeq(PageTags[i].text, 1, 2), dosage_values)
    THEN SubSeq(PageTags[i].text, 1, 2)
    ELSE NoMatch

\* the first marker of a list that the text holds, '' when it holds none
FirstMarker(list, text) ==
    IF \E k \in 1..Len(list) : IsSubstr(list[k], text)
    THEN list[Least({ k \in 1..Len(list) : IsSubstr(list[k], text) })]
    ELSE <<>>

\* the cycle, dosage form, care setting and method of the descriptors a
\* call appended, in order
Appended ==
    [k \in 1..Len(result.files) |->
        <<result.files[k].nth, result.files[k].dosage,
          result.files[k].medical_class, result.files[k].method>>]

\* the same for the anchor at i with the dosage form d
Described(i, d) ==
    <<PyInt(call.nth), PyStr(d),
      PyStr(FirstMarker(medical_class_values, PageTags[i].text)),
      PyStr(FirstMarker(method_values, PageTags[i].text))>>

====
